---- MODULE Spec2Model ----
(***************************************************************************)
(* Model of the heliostat radio message layer of src/messages.py:          *)
(* the message variants and their byte layouts, the opcode table, the      *)
(* frame codec (serialize / deserialize) and the packetizer                *)
(* (break_into_packets); and of ZMQSubscriber of src/zmq_message.py.       *)
(*                                                                         *)
(* Every operation of src/messages.py is a pure function.  The state       *)
(* machine Spec applies one operation per step to an input drawn from a    *)
(* bounded set and records the operation, its input and its outcome.       *)
(* The state machine SpecZmq is a subscriber and the generator of its      *)
(* get_messages, one step per run of the generator between two points      *)
(* where it waits: its creation, a resumption by next(), the end of a      *)
(* receive, a close().                                                     *)
(*                                                                         *)
(* Conventions.                                                            *)
(*   - a byte list is a sequence of naturals (Python list of ints);        *)
(*   - an outcome is Ok(v) for a returned value or Raise(e) for a raised   *)
(*     exception, e being the Python exception the code raises there;      *)
(*   - the local time zone is UTC (datetime.timestamp / fromtimestamp of   *)
(*     naive datetimes are modelled without an offset).                    *)
(***************************************************************************)
EXTENDS Integers, Sequences, FiniteSets, TLC

VARIABLES
    arg,     \* the input: a message, a byte list or a to_bytes() result
    now,     \* datetime.now(), the clock the time-of-day decoding reads
    op,      \* the operation applied last ("none" before the first)
    wire,    \* the outcome of to_bytes / serialize, or the bytes received
    called,  \* the class whose from_bytes deserialize called ("none": none)
    res      \* the outcome of the operation applied last

VARIABLES
    default_timeout_ms,   \* self.default_timeout_ms
    RCVTIMEO,             \* the zmq.RCVTIMEO option of self.socket
    num_messages,         \* the argument of the get_messages call
    timeout_override_ms,  \* the argument of the get_messages call
    received_msgs,        \* the local of the generator
    pc,                   \* where the generator of get_messages is
    yielded,              \* the number of messages the generator has yielded
    consumer              \* who iterates the generator: "caller" or "list"

message_vars == <<arg, now, op, wire, called, res>>

subscriber_vars ==
    <<default_timeout_ms, RCVTIMEO, num_messages, timeout_override_ms,
      received_msgs, pc, yielded, consumer>>

vars == <<message_vars, subscriber_vars>>

(***************************************************************************)
(* Python helpers                                                          *)
(***************************************************************************)

Min(a, b) == IF a <= b THEN a ELSE b

Max(a, b) == IF a >= b THEN a ELSE b

\* s[a:b] for 0 <= a, 0 <= b: the slice is clamped to the list, never an error
Slice(s, a, b) == SubSeq(s, Min(a, Len(s)) + 1, Min(b, Len(s)))

\* [v] * n
Repeat(v, n) == [i \in 1..Max(n, 0) |-> v]

Ok(v) == [ok |-> TRUE, val |-> v, exc |-> "none"]

Raise(e) == [ok |-> FALSE, val |-> <<>>, exc |-> e]

\* no outcome yet
Unset == Raise("unset")

(***************************************************************************)
(* Module constants (src/messages.py:17-21)                                *)
(***************************************************************************)

NUM_BYTES_IN_TIMESTAMP == 4

FC_RADIO_ADDRESS == 255

RADIO_MESSAGE_FIXED_LENGTH == 16

(***************************************************************************)
(* Packetizer                                                              *)
(***************************************************************************)

\* data_size = RADIO_MESSAGE_FIXED_LENGTH - 3
data_size == RADIO_MESSAGE_FIXED_LENGTH - 3

\* mutant: the packet count as len(message) // data_size + 1
total_packages_floor_plus_one(message) == Len(message) \div data_size + 1

\* total_packages = (len(message) + data_size - 1) // data_size
total_packages(message) == (Len(message) + data_size - 1) \div data_size

\* mutant: sequence numbers counted from zero
packet_of_from_zero(message, i) ==
    LET start_offset == i * data_size
        end_offset == Min(start_offset + data_size, Len(message))
        packet == <<FC_RADIO_ADDRESS, i, total_packages(message)>>
                      \o Slice(message, start_offset, end_offset)
    IN IF Len(packet) < RADIO_MESSAGE_FIXED_LENGTH
       THEN packet \o Repeat(0, RADIO_MESSAGE_FIXED_LENGTH - Len(packet))
       ELSE packet

\* mutant: the data offset advances by the packet length, not the data size
packet_of_wrong_stride(message, i) ==
    LET start_offset == i * RADIO_MESSAGE_FIXED_LENGTH
        end_offset == Min(start_offset + data_size, Len(message))
        packet == <<FC_RADIO_ADDRESS, i + 1, total_packages(message)>>
                      \o Slice(message, start_offset, end_offset)
    IN IF Len(packet) < RADIO_MESSAGE_FIXED_LENGTH
       THEN packet \o Repeat(0, RADIO_MESSAGE_FIXED_LENGTH - Len(packet))
       ELSE packet

\* the packet built by iteration i (0-based) of the loop
packet_of(message, i) ==
    LET start_offset == i * data_size
        end_offset == Min(start_offset + data_size, Len(message))
        packet == <<FC_RADIO_ADDRESS, i + 1, total_packages(message)>>
                      \o Slice(message, start_offset, end_offset)
    IN IF Len(packet) < RADIO_MESSAGE_FIXED_LENGTH
       THEN packet \o Repeat(0, RADIO_MESSAGE_FIXED_LENGTH - Len(packet))
       ELSE packet

break_into_packets(message) ==
    [k \in 1..total_packages(message) |-> packet_of(message, k - 1)]

(***************************************************************************)
(* Exact arithmetic for the float expressions of the code.                 *)
(*                                                                         *)
(* Python floats are IEEE-754 doubles and every float operation rounds its *)
(* exact result to the nearest double, ties to even.  The code truncates   *)
(* and rounds such results (int(t * 1000), fromtimestamp(ms / 1000)), so   *)
(* the rounding is modelled bit for bit.  A natural number of any size is  *)
(* a sequence of limbs, least significant first, without high zero limbs   *)
(* (zero is <<>>); a double is [m, e], the dyadic value m * 2^e with       *)
(* m < 2^53 (or m = 2^53 after a carry, which is the same double).  Only   *)
(* non-negative values in the normal range occur.                          *)
(***************************************************************************)

LimbBits == 15

LimbBase == 2^15

RECURSIVE BNorm(_)
BNorm(x) ==
    IF x = <<>> THEN <<>>
    ELSE IF x[Len(x)] = 0 THEN BNorm(SubSeq(x, 1, Len(x) - 1))
    ELSE x

RECURSIVE BFromInt(_)
BFromInt(n) ==
    IF n = 0 THEN <<>> ELSE <<n % LimbBase>> \o BFromInt(n \div LimbBase)

\* the value of x as an integer; x < 2^31
RECURSIVE BToInt(_)
BToInt(x) ==
    IF x = <<>> THEN 0 ELSE Head(x) + LimbBase * BToInt(Tail(x))

RECURSIVE BMulC(_, _, _)
BMulC(x, m, c) ==
    IF x = <<>> THEN BFromInt(c)
    ELSE LET t == Head(x) * m + c
         IN <<t % LimbBase>> \o BMulC(Tail(x), m, t \div LimbBase)

\* x * m, 0 <= m <= 2^15
BMulSmall(x, m) == BNorm(BMulC(x, m, 0))

\* [q, r]: quotient limbs (not normalised) and remainder of x by d, d < 2^15
RECURSIVE BDivR(_, _)
BDivR(x, d) ==
    IF x = <<>> THEN [q |-> <<>>, r |-> 0]
    ELSE LET hi == BDivR(Tail(x), d)
             t == hi.r * LimbBase + Head(x)
         IN [q |-> <<t \div d>> \o hi.q, r |-> t % d]

BDivSmall(x, d) == LET qr == BDivR(x, d) IN [q |-> BNorm(qr.q), r |-> qr.r]

RECURSIVE BAddC(_, _, _)
BAddC(x, y, c) ==
    IF x = <<>> /\ y = <<>> THEN BFromInt(c)
    ELSE LET a == IF x = <<>> THEN 0 ELSE Head(x)
             b == IF y = <<>> THEN 0 ELSE Head(y)
             t == a + b + c
         IN <<t % LimbBase>>
                \o BAddC(IF x = <<>> THEN <<>> ELSE Tail(x),
                         IF y = <<>> THEN <<>> ELSE Tail(y),
                         t \div LimbBase)

BAdd(x, y) == BNorm(BAddC(x, y, 0))

\* x * 2^k
BShl(x, k) ==
    IF x = <<>> THEN <<>>
    ELSE BMulSmall(Repeat(0, k \div LimbBits) \o x, 2^(k % LimbBits))

\* floor(x / 2^k)
BShr(x, k) ==
    BDivSmall(Slice(x, k \div LimbBits, Len(x)), 2^(k % LimbBits)).q

\* x mod 2^k
BLow(x, k) ==
    LET n == k \div LimbBits
    IN BNorm(Slice(x, 0, n)
               \o (IF n < Len(x) THEN <<x[n + 1] % 2^(k % LimbBits)>> ELSE <<>>))

\* bit i of x (bit 0 is the least significant)
BBit(x, i) ==
    LET n == i \div LimbBits
    IN IF n < Len(x) THEN (x[n + 1] \div 2^(i % LimbBits)) % 2 ELSE 0

RECURSIVE IntBitLen(_)
IntBitLen(n) == IF n = 0 THEN 0 ELSE 1 + IntBitLen(n \div 2)

BBitLen(x) ==
    IF x = <<>> THEN 0 ELSE LimbBits * (Len(x) - 1) + IntBitLen(x[Len(x)])

\* x <= y
RECURSIVE BLeq(_, _)
BLeq(x, y) ==
    IF Len(x) # Len(y) THEN Len(x) < Len(y)
    ELSE IF x = <<>> THEN TRUE
    ELSE IF x[Len(x)] # y[Len(y)] THEN x[Len(x)] < y[Len(y)]
    ELSE BLeq(SubSeq(x, 1, Len(x) - 1), SubSeq(y, 1, Len(y) - 1))

\* The double nearest to (X + f) * 2^e, ties to even, where 0 <= f < 1 and
\* f > 0 exactly when sticky; X has at least 54 bits whenever sticky holds.
RoundDyadic(X, e, sticky) ==
    LET n == BBitLen(X)
        s == n - 53
        q == BShr(X, s)
        roundbit == BBit(X, s - 1)
        low == BLow(X, s - 1) # <<>> \/ sticky
        up == roundbit = 1 /\ (low \/ BBit(q, 0) = 1)
    IN IF n <= 53 THEN [m |-> X, e |-> e]
       ELSE [m |-> IF up THEN BAdd(q, <<1>>) ELSE q, e |-> e + s]

DivScale == 90

\* float(N) / 1e6 and N / 1000 (Python true division): the quotient is
\* rounded once.  The divisor is d1 * d2, both below 2^15.
DDiv(N, d1, d2) ==
    LET a == BDivSmall(BShl(N, DivScale), d1)
        b == BDivSmall(a.q, d2)
    IN RoundDyadic(b.q, 0 - DivScale, a.r # 0 \/ b.r # 0)

\* S + a for a natural S and a double a
DAddNat(S, a) ==
    IF a.e < 0 THEN RoundDyadic(BAdd(BShl(S, 0 - a.e), a.m), a.e, FALSE)
    ELSE RoundDyadic(BAdd(S, BShl(a.m, a.e)), 0, FALSE)

\* a * k for a double a and k = k1 * k2, both below 2^15
DMul(a, k1, k2) == RoundDyadic(BMulSmall(BMulSmall(a.m, k1), k2), a.e, FALSE)

\* int(a) and the integer part of modf(a)
DTrunc(a) == IF a.e >= 0 THEN BShl(a.m, a.e) ELSE BShr(a.m, 0 - a.e)

\* the fractional part of modf(a): exact
DFrac(a) == IF a.e >= 0 THEN [m |-> <<>>, e |-> 0] ELSE [m |-> BLow(a.m, 0 - a.e), e |-> a.e]

\* _PyTime_RoundHalfEven(a) as a natural number
DRoundHalfEven(a) ==
    LET k == 0 - a.e
        q == BShr(a.m, k)
        roundbit == BBit(a.m, k - 1)
        low == BLow(a.m, k - 1) # <<>>
    IN IF a.e >= 0 THEN BShl(a.m, a.e)
       ELSE IF roundbit = 1 /\ (low \/ BBit(q, 0) = 1) THEN BAdd(q, <<1>>)
       ELSE q

(***************************************************************************)
(* Integers and byte lists                                                 *)
(***************************************************************************)

\* n.to_bytes(length, byteorder="little") for a natural n below 256^length
RECURSIVE to_bytes_little(_, _)
to_bytes_little(n, length) ==
    IF length = 0 THEN <<>>
    ELSE LET qr == BDivSmall(n, 256)
         IN <<qr.r>> \o to_bytes_little(qr.q, length - 1)

\* int.from_bytes(data, byteorder="little") and struct.unpack("<Q", data)[0]
RECURSIVE from_bytes_little(_)
from_bytes_little(data) ==
    IF data = <<>> THEN <<>>
    ELSE BAdd(BMulSmall(from_bytes_little(Tail(data)), 256), BFromInt(Head(data)))

(***************************************************************************)
(* datetime.  A naive datetime is [day, sec, us]: days since 1970-01-01,   *)
(* seconds since midnight and microseconds.  datetime.max is               *)
(* 9999-12-31 23:59:59.999999, day 2932896.                                *)
(***************************************************************************)

MaxDay == 2932896

\* the seconds since the epoch of the datetime's second, as a natural number
seconds_of(dt) ==
    BAdd(BMulSmall(BMulSmall(BFromInt(dt.day), 100), 864), BFromInt(dt.sec))

\* datetime.timestamp(): seconds + microsecond / 1e6, in floats
datetime_timestamp(dt) == DAddNat(seconds_of(dt), DDiv(BFromInt(dt.us), 1000, 1000))

\* datetime.fromtimestamp(t) for a double t >= 0: the fraction is scaled to
\* microseconds and rounded half to even; a year above 9999 is a ValueError
datetime_fromtimestamp(t) ==
    LET frac_us == BToInt(DRoundHalfEven(DMul(DFrac(t), 1000, 1000)))
        carry == frac_us >= 1000000
        us == IF carry THEN frac_us - 1000000 ELSE frac_us
        intpart == IF carry THEN BAdd(DTrunc(t), <<1>>) ELSE DTrunc(t)
        a == BDivSmall(intpart, 100)
        b == BDivSmall(a.q, 864)
    IN IF ~BLeq(b.q, BFromInt(MaxDay))
       THEN Raise("ValueError: year out of range")
       ELSE Ok([day |-> BToInt(b.q), sec |-> b.r * 100 + a.r, us |-> us])

(***************************************************************************)
(* HeartBeat                                                               *)
(***************************************************************************)

\* milliseconds = int(self.timestamp.timestamp() * 1000)
HeartBeat_milliseconds(msg) == DTrunc(DMul(datetime_timestamp(msg.timestamp), 1000, 1))

HeartBeat_to_bytes(msg) == Ok(to_bytes_little(HeartBeat_milliseconds(msg), 8))

HeartBeat_from_bytes(data) ==
    IF Len(data) # 8 THEN Raise("struct.error")
    ELSE LET milliseconds == from_bytes_little(data)
             t == datetime_fromtimestamp(DDiv(milliseconds, 1000, 1))
         IN IF t.ok THEN Ok([type |-> "HeartBeat", timestamp |-> t.val]) ELSE t

(***************************************************************************)
(* 32-bit floats.  A Python float field is [s, e, hi, lo]: sign, exponent  *)
(* biased as in a 32-bit float, the 23 high bits of the fraction and its   *)
(* 29 low bits.  For 1 <= e <= 254 its value is                            *)
(*   (-1)^s * 2^(e - 127) * (1 + hi / 2^23 + lo / 2^52);                   *)
(* with lo = 0 it is a 32-bit float, e = 0 being zero and the denormals,   *)
(* e = 255 infinity (hi = 0) and NaN.  struct's "f" is native byte order,  *)
(* little-endian here as on the STM the module's note speaks of.           *)
(***************************************************************************)

\* struct.pack("f", x): the C cast (float)x rounds to the nearest 32-bit float,
\* ties to even; a finite x that rounds out of range becomes infinity (native
\* mode has no overflow check)
pack_f(x) ==
    LET up == x.lo > 2^28 \/ (x.lo = 2^28 /\ x.hi % 2 = 1)
        carry == up /\ x.hi = 2^23 - 1
        hi == IF carry THEN 0 ELSE IF up THEN x.hi + 1 ELSE x.hi
        e == IF carry THEN x.e + 1 ELSE x.e
    IN Ok(<<hi % 256, (hi \div 256) % 256,
            (e % 2) * 128 + hi \div 65536, x.s * 128 + e \div 2>>)

\* struct.unpack("f", bytes(data))[0]: widening the 32-bit float to a double
\* is exact, except that a signalling NaN comes out quiet
unpack_f(data) ==
    IF Len(data) # 4 THEN Raise("struct.error")
    ELSE LET e == (data[4] % 128) * 2 + data[3] \div 128
             hi == (data[3] % 128) * 65536 + data[2] * 256 + data[1]
         IN Ok([s |-> data[4] \div 128,
                e |-> e,
                hi |-> IF e = 255 /\ hi # 0 /\ hi < 2^22 THEN hi + 2^22 ELSE hi,
                lo |-> 0])

IsNaN(x) == x.e = 255 /\ (x.hi # 0 \/ x.lo # 0)

IsZero(x) == x.e = 0 /\ x.hi = 0 /\ x.lo = 0

\* x == y on Python floats: NaN equals nothing, 0.0 == -0.0
FloatEq(x, y) ==
    /\ ~IsNaN(x)
    /\ ~IsNaN(y)
    /\ (x = y \/ (IsZero(x) /\ IsZero(y)))

(***************************************************************************)
(* HelioCmd                                                                *)
(***************************************************************************)

\* mutant: the low byte first
int_to_bytes_low_first(integer) == <<integer % 256, (integer \div 256) % 256>>

\* (integer >> 8) & 0xFF, integer & 0xFF
int_to_bytes(integer) == <<(integer \div 256) % 256, integer % 256>>

HelioCmd_to_bytes(msg) == Ok(int_to_bytes(msg.helio_id) \o <<msg.action>>)

HelioCmd_from_bytes(data) ==
    IF Len(data) < 3 THEN Raise("IndexError")
    ELSE IF data[3] \notin 0..7 THEN Raise("ValueError: not a valid Action")
    ELSE Ok([type |-> "HelioCmd",
             helio_id |-> data[1] * 256 + data[2],
             action |-> data[3]])

(***************************************************************************)
(* HelioTargetPoseCmd                                                      *)
(***************************************************************************)

\* self.helio_id.to_bytes(2, byteorder="little")
helio_id_to_bytes(helio_id) ==
    IF helio_id \notin 0..65535 THEN Raise("OverflowError")
    ELSE Ok(<<helio_id % 256, helio_id \div 256>>)

\* int.from_bytes(data, byteorder="little") of at most two bytes
helio_id_from_bytes(data) == BToInt(from_bytes_little(data))

\* bytes_list.extend(...) of each part in turn: the first part that raises ends it
RECURSIVE extend_all(_)
extend_all(parts) ==
    IF parts = <<>> THEN Ok(<<>>)
    ELSE IF ~Head(parts).ok THEN Head(parts)
    ELSE LET rest == extend_all(Tail(parts))
         IN IF rest.ok THEN Ok(Head(parts).val \o rest.val) ELSE rest

HelioTargetPoseCmd_to_bytes(msg) ==
    extend_all(<<helio_id_to_bytes(msg.helio_id),
                 pack_f(msg.x), pack_f(msg.y), pack_f(msg.z)>>)

HelioTargetPoseCmd_from_bytes(data) ==
    LET helio_id == helio_id_from_bytes(Slice(data, 0, 2))
        x == unpack_f(Slice(data, 2, 6))
        y == unpack_f(Slice(data, 6, 10))
        z == unpack_f(Slice(data, 10, 14))
    IN IF ~x.ok THEN x
       ELSE IF ~y.ok THEN y
       ELSE IF ~z.ok THEN z
       ELSE Ok([type |-> "HelioTargetPoseCmd", helio_id |-> helio_id,
                x |-> x.val, y |-> y.val, z |-> z.val])

(***************************************************************************)
(* Time of day (the timestamp of CalibObservation)                         *)
(***************************************************************************)

\* (t - midnight).seconds * 1000 + t.microsecond // 1000
get_milliseconds_since_midnight(t) == t.sec * 1000 + t.us \div 1000

\* the four bytes (ms >> 24) & 0xFF, (ms >> 16) & 0xFF, (ms >> 8) & 0xFF, ms & 0xFF
time_to_bytes(t) ==
    LET milliseconds_since_midnight == get_milliseconds_since_midnight(t)
    IN <<(milliseconds_since_midnight \div 2^24) % 256,
         (milliseconds_since_midnight \div 2^16) % 256,
         (milliseconds_since_midnight \div 2^8) % 256,
         milliseconds_since_midnight % 256>>

\* a > b on datetimes
LaterThan(a, b) ==
    \/ a.day > b.day
    \/ (a.day = b.day /\ a.sec > b.sec)
    \/ (a.day = b.day /\ a.sec = b.sec /\ a.us > b.us)

\* what get_time_point_from_milliseconds_since_midnight would give if it
\* never took the day off
get_time_point_never_a_day_less(milliseconds_since_midnight, current) ==
    LET a == BDivSmall(milliseconds_since_midnight, 1000)
        b == BDivSmall(a.q, 100)
        c == BDivSmall(b.q, 864)
    IN [day |-> current.day + BToInt(c.q),
        sec |-> c.r * 100 + b.r,
        us |-> a.r * 1000]

\* midnight of the current date plus the milliseconds, a day less when that
\* is later than the current time; the milliseconds are a natural number of
\* up to 32 bits
get_time_point_from_milliseconds_since_midnight(milliseconds_since_midnight, current) ==
    LET a == BDivSmall(milliseconds_since_midnight, 1000)
        b == BDivSmall(a.q, 100)
        c == BDivSmall(b.q, 864)
        time_point == [day |-> current.day + BToInt(c.q),
                       sec |-> c.r * 100 + b.r,
                       us |-> a.r * 1000]
    IN IF LaterThan(time_point, current)
       THEN [time_point EXCEPT !.day = @ - 1]
       ELSE time_point

\* (b0 << 24) | (b1 << 16) | (b2 << 8) | b3, then the time point
bytes_to_time(bytes_list, current) ==
    IF Len(bytes_list) < 4 THEN Raise("IndexError")
    ELSE Ok(get_time_point_from_milliseconds_since_midnight(
                from_bytes_little(<<bytes_list[4], bytes_list[3],
                                    bytes_list[2], bytes_list[1]>>),
                current))

(***************************************************************************)
(* HelioAngle and CalibObservation                                         *)
(***************************************************************************)

HelioAngle_to_bytes(angle) == extend_all(<<pack_f(angle.elev), pack_f(angle.tilt)>>)

\* struct.unpack("ff", bytes(bytes_list[:8]))
HelioAngle_from_bytes(bytes_list) ==
    IF Len(Slice(bytes_list, 0, 8)) # 8 THEN Raise("struct.error")
    ELSE Ok([elev |-> unpack_f(Slice(bytes_list, 0, 4)).val,
             tilt |-> unpack_f(Slice(bytes_list, 4, 8)).val])

CalibObservation_to_bytes(msg) ==
    extend_all(<<Ok(time_to_bytes(msg.timestamp)),
                 pack_f(msg.spot_error_u),
                 pack_f(msg.spot_error_v),
                 helio_id_to_bytes(msg.helio_id),
                 HelioAngle_to_bytes(msg.elev_tilt_rads)>>)

CalibObservation_from_bytes(bytes_list, current) ==
    LET timestamp == bytes_to_time(Slice(bytes_list, 0, NUM_BYTES_IN_TIMESTAMP), current)
        spot_error_u == unpack_f(Slice(bytes_list, 4, 8))
        spot_error_v == unpack_f(Slice(bytes_list, 8, 12))
        helio_id == helio_id_from_bytes(Slice(bytes_list, 12, 14))
        elev_tilt_rads == HelioAngle_from_bytes(Slice(bytes_list, 14, 22))
    IN IF ~timestamp.ok THEN timestamp
       ELSE IF ~spot_error_u.ok THEN spot_error_u
       ELSE IF ~spot_error_v.ok THEN spot_error_v
       ELSE IF ~elev_tilt_rads.ok THEN elev_tilt_rads
       ELSE Ok([type |-> "CalibObservation",
                timestamp |-> timestamp.val,
                spot_error_u |-> spot_error_u.val,
                spot_error_v |-> spot_error_v.val,
                helio_id |-> helio_id,
                elev_tilt_rads |-> elev_tilt_rads.val])

(***************************************************************************)
(* The opcode table and the frame codec                                    *)
(***************************************************************************)

\* mutant: HeartBeat appended with the opcode HelioTargetPoseCmd has
OPCODE_MAPPINGS_reused_opcode ==
    <<[class_type |-> "HelioCmd", opcode |-> 0],
      [class_type |-> "PodConfigUpdateCmd", opcode |-> 3],
      [class_type |-> "CalibObservation", opcode |-> 4],
      [class_type |-> "HelioTargetPoseCmd", opcode |-> 5],
      [class_type |-> "HeartBeat", opcode |-> 5]>>

\* the items of the dict, in insertion order
OPCODE_MAPPINGS ==
    <<[class_type |-> "HelioCmd", opcode |-> 0],
      [class_type |-> "PodConfigUpdateCmd", opcode |-> 3],
      [class_type |-> "CalibObservation", opcode |-> 4],
      [class_type |-> "HelioTargetPoseCmd", opcode |-> 5],
      [class_type |-> "HeartBeat", opcode |-> 6]>>

\* OPCODE_MAPPINGS[class_type]
opcode_of(class_type) ==
    OPCODE_MAPPINGS[CHOOSE i \in DOMAIN OPCODE_MAPPINGS :
                        OPCODE_MAPPINGS[i].class_type = class_type].opcode

\* data.to_bytes(): PodConfigUpdateCmd defines none
to_bytes(data) ==
    CASE data.type = "HelioCmd" -> HelioCmd_to_bytes(data)
      [] data.type = "HelioTargetPoseCmd" -> HelioTargetPoseCmd_to_bytes(data)
      [] data.type = "CalibObservation" -> CalibObservation_to_bytes(data)
      [] data.type = "HeartBeat" -> HeartBeat_to_bytes(data)
      [] data.type = "PodConfigUpdateCmd" -> Raise("AttributeError")

\* class_type.from_bytes(command_bytes): PodConfigUpdateCmd defines none
from_bytes(class_type, command_bytes, current) ==
    CASE class_type = "HelioCmd" -> HelioCmd_from_bytes(command_bytes)
      [] class_type = "HelioTargetPoseCmd" -> HelioTargetPoseCmd_from_bytes(command_bytes)
      [] class_type = "CalibObservation" -> CalibObservation_from_bytes(command_bytes, current)
      [] class_type = "HeartBeat" -> HeartBeat_from_bytes(command_bytes)
      [] class_type = "PodConfigUpdateCmd" -> Raise("AttributeError")

\* msg = [opcode, len(msg_data)] + msg_data
serialize_frame(opcode, msg_data) == <<opcode, Len(msg_data)>> \o msg_data

serialize(data) ==
    LET opcode == opcode_of(data.type)
        msg_data == to_bytes(data)
    IN IF msg_data.ok THEN Ok(serialize_frame(opcode, msg_data.val)) ELSE msg_data

\* command_bytes = data[2 : 2 + length]
command_bytes_of(data) == Slice(data, 2, 2 + data[2])

\* the first item of the table, iterated in the given order, whose opcode is
\* the candidate: its index, or 0 when the loop ends without a match
RECURSIVE first_match(_, _, _)
first_match(items, opcode, i) ==
    IF i > Len(items) THEN 0
    ELSE IF items[i].opcode = opcode THEN i
    ELSE first_match(items, opcode, i + 1)

\* the class whose from_bytes deserialize calls, "none" when it calls none
deserialize_dispatch(items, data) ==
    IF Len(data) < 2 THEN "none"
    ELSE IF command_bytes_of(data) = <<>> THEN "none"
    ELSE LET i == first_match(items, data[1], 1)
         IN IF i = 0 THEN "none" ELSE items[i].class_type

deserialize_over(items, data, current) ==
    IF Len(data) < 2 THEN Raise("struct.error")
    ELSE IF command_bytes_of(data) = <<>> THEN Raise("ValueError: Empty command bytes")
    ELSE IF deserialize_dispatch(items, data) = "none" THEN Raise("ValueError: Unknown opcode")
    ELSE from_bytes(deserialize_dispatch(items, data), command_bytes_of(data), current)

deserialize(data, current) == deserialize_over(OPCODE_MAPPINGS, data, current)

(***************************************************************************)
(* Inputs                                                                  *)
(***************************************************************************)

\* helio ids 0..SweepIds are all tried, with the values around the byte
\* boundaries and the top of the 16-bit range
SweepIds == 300

\* the longest payload after the two header bytes of a received frame
MaxPayload == 23

\* the longest message given to the packetizer
MaxMsgLen == 131

HelioIds == (0..SweepIds) \cup {4095, 4096, 32767, 32768, 65279, 65280, 65534, 65535}

\* helio_id is declared int: values beyond 16 bits can be constructed
WideIds == {65536, 65836, 70000}

ActionValues == 0..7

STOW == 2

\* 0.0, -0.0, 1.0, 0.1 (a double), 0.1 rounded to 32 bits, two ties, a value
\* that rounds up to 2.0, -2.5, the smallest denormal, a finite double that
\* rounds to infinity, infinity and NaN
FloatSamples ==
    {[s |-> 0, e |-> 0, hi |-> 0, lo |-> 0],
     [s |-> 1, e |-> 0, hi |-> 0, lo |-> 0],
     [s |-> 0, e |-> 127, hi |-> 0, lo |-> 0],
     [s |-> 0, e |-> 123, hi |-> 5033164, lo |-> 429496730],
     [s |-> 0, e |-> 123, hi |-> 5033165, lo |-> 0],
     [s |-> 0, e |-> 127, hi |-> 2, lo |-> 2^28],
     [s |-> 0, e |-> 127, hi |-> 3, lo |-> 2^28],
     [s |-> 0, e |-> 127, hi |-> 2^23 - 1, lo |-> 2^28 + 1],
     [s |-> 1, e |-> 128, hi |-> 2^21, lo |-> 0],
     [s |-> 0, e |-> 0, hi |-> 1, lo |-> 0],
     [s |-> 0, e |-> 254, hi |-> 2^23 - 1, lo |-> 2^29 - 1],
     [s |-> 0, e |-> 255, hi |-> 0, lo |-> 0],
     [s |-> 0, e |-> 255, hi |-> 2^22, lo |-> 0]}

FewFloats ==
    {[s |-> 0, e |-> 127, hi |-> 0, lo |-> 0],
     [s |-> 1, e |-> 128, hi |-> 2^21, lo |-> 0],
     [s |-> 0, e |-> 123, hi |-> 5033164, lo |-> 429496730]}

\* 1970-01-01, 1970-01-02, 2004-02-02, 2024-10-03 and 2024-10-04
DaySamples == {0, 1, 12450, 19999, 20000}

SecSamples == {0, 1, 43200, 86399}

MicroSamples == {0, 1000, 1001, 500000, 999000, 999999}

TimeSamples == [day : DaySamples, sec : SecSamples, us : MicroSamples]

NowSamples ==
    {[day |-> 20000, sec |-> 0, us |-> 0],
     [day |-> 20000, sec |-> 43200, us |-> 500000],
     [day |-> 20000, sec |-> 86399, us |-> 999999]}

HelioCmds ==
    [type : {"HelioCmd"}, helio_id : HelioIds \cup WideIds, action : ActionValues]

HelioTargetPoseCmds ==
    [type : {"HelioTargetPoseCmd"}, helio_id : {0, 300, 65535, 65536},
     x : FloatSamples, y : FewFloats, z : FewFloats]

HeartBeats == [type : {"HeartBeat"}, timestamp : TimeSamples]

CalibObservations ==
    [type : {"CalibObservation"}, timestamp : TimeSamples,
     spot_error_u : FewFloats, spot_error_v : {[s |-> 0, e |-> 127, hi |-> 0, lo |-> 0]},
     helio_id : {300, 65535},
     elev_tilt_rads : {[elev |-> [s |-> 0, e |-> 123, hi |-> 5033165, lo |-> 0],
                        tilt |-> [s |-> 1, e |-> 128, hi |-> 2^21, lo |-> 0]]}]

\* config is a dict that no code path turns into bytes: its keys only
PodConfigUpdateCmds ==
    [type : {"PodConfigUpdateCmd"}, pod_id : 0..2, config : {{}, {"period"}}]

Messages ==
    HelioCmds \cup HelioTargetPoseCmds \cup HeartBeats
        \cup CalibObservations \cup PodConfigUpdateCmds

\* one well-formed payload of each variant, and constant bytes
PayloadBases ==
    {HelioCmd_to_bytes([type |-> "HelioCmd", helio_id |-> 300, action |-> STOW]).val,
     HelioTargetPoseCmd_to_bytes(
         [type |-> "HelioTargetPoseCmd", helio_id |-> 300,
          x |-> [s |-> 0, e |-> 127, hi |-> 0, lo |-> 0],
          y |-> [s |-> 1, e |-> 128, hi |-> 2^21, lo |-> 0],
          z |-> [s |-> 0, e |-> 123, hi |-> 5033165, lo |-> 0]]).val,
     HeartBeat_to_bytes(
         [type |-> "HeartBeat",
          timestamp |-> [day |-> 19999, sec |-> 43200, us |-> 1000]]).val,
     CalibObservation_to_bytes(
         [type |-> "CalibObservation",
          timestamp |-> [day |-> 19999, sec |-> 43200, us |-> 1000],
          spot_error_u |-> [s |-> 0, e |-> 127, hi |-> 0, lo |-> 0],
          spot_error_v |-> [s |-> 1, e |-> 128, hi |-> 2^21, lo |-> 0],
          helio_id |-> 300,
          elev_tilt_rads |-> [elev |-> [s |-> 0, e |-> 123, hi |-> 5033165, lo |-> 0],
                              tilt |-> [s |-> 0, e |-> 127, hi |-> 0, lo |-> 0]]]).val,
     <<0>>, <<1>>, <<9>>, <<255>>}

\* the first n bytes of the base, continued with its last byte
Payload(base, n) == [i \in 1..n |-> IF i <= Len(base) THEN base[i] ELSE base[Len(base)]]

OpcodeSamples == {0, 1, 2, 3, 4, 5, 6, 99}

LengthSamples == {0, 1, 2, 3, 4, 8, 14, 22, 23, 255}

Frames ==
    {<<>>} \cup {<<o>> : o \in OpcodeSamples}
        \cup {<<o, l>> \o Payload(base, n) :
                 o \in OpcodeSamples, l \in LengthSamples,
                 n \in 0..MaxPayload, base \in PayloadBases}

\* byte lists for the packetizer: byte i is seed + i * step
Blobs ==
    {[i \in 1..n |-> (seed + (i - 1) * step) % 256] :
         n \in 0..MaxMsgLen, seed \in {0, 1, 255}, step \in {0, 1}}

\* to_bytes() results of any length for a class of the table: serialize
\* takes what data.to_bytes() returns as it is
PayloadLens == {0, 1, 3, 22, 254, 255, 256, 257, 300}

RawPayloads ==
    [class_type : {OPCODE_MAPPINGS[i].class_type : i \in DOMAIN OPCODE_MAPPINGS},
     msg_data : {Repeat(b, n) : b \in {0, 7}, n \in PayloadLens}]

\* timestamps and decode instants for the time of day alone: around
\* midnight and noon of two days, with and without a part of a millisecond
TodMicros == {0, 200, 999, 1000, 500000, 500500, 999999}

TodSecs == {0, 43200, 86399}

TodTimes == [day : {19999, 20000}, sec : TodSecs, us : TodMicros]

TodNows == [day : {20000, 20001}, sec : TodSecs, us : TodMicros]

Inputs ==
    [kind : {"msg"}, v : Messages]
        \cup [kind : {"bytes"}, v : Frames \cup Blobs]
        \cup [kind : {"payload"}, v : RawPayloads]
        \cup [kind : {"time"}, v : TodTimes]

\* the inputs whose processing reads the clock
ReadsClock(i) ==
    \/ (i.kind = "msg" /\ i.v.type = "CalibObservation")
    \/ (i.kind = "bytes" /\ Len(i.v) >= 1 /\ i.v[1] = opcode_of("CalibObservation"))

(***************************************************************************)
(* ZMQSubscriber (src/zmq_message.py)                                      *)
(***************************************************************************)

\* an optional int: None, or the int as a sequence of one element
None == <<>>

IntValue(v) == <<v>>

\* the truth value of an optional int: None and 0 are false
Truthy(x) == x # None /\ x[1] # 0

\* set_timeout(timeout_ms): the value it gives to
\* self.socket.setsockopt(zmq.RCVTIMEO, ...)
set_timeout(timeout_ms, default) ==
    IF ~Truthy(timeout_ms) THEN default ELSE timeout_ms[1]

\* ZMQSubscriber(timeout_ms=...): the default is kept and set on the socket;
\* no generator exists yet
ZMQSubscriber_init(timeout_ms) ==
    /\ default_timeout_ms = timeout_ms
    /\ RCVTIMEO = set_timeout(None, timeout_ms)
    /\ num_messages = 0
    /\ timeout_override_ms = None
    /\ received_msgs = 0
    /\ pc = "none"
    /\ yielded = 0
    /\ consumer = "none"

\* the positions of a generator that has ended: by its return, by
\* ZMQTimeout, by another exception of recv_pyobj, by close()
Ended == {"returned", "ZMQTimeout", "error", "closed"}

\* the largest positive num_messages; a generator with num_messages <= 0
\* does not end by itself and is followed for one message more
MaxCount == 3

\* -1 and 0 are "all the messages"
CountSamples == {-1, 0} \cup 1..MaxCount

\* receive timeouts in ms: -1 waits for ever, 0 does not wait
TimeoutSamples == {-1, 0, 1000}

OverrideSamples == {None} \cup {IntValue(v) : v \in {-1, 0, 500, 1000}}

(***************************************************************************)
(* The state machine of the message layer                                  *)
(***************************************************************************)

Init ==
    /\ arg \in Inputs
    /\ now \in (IF arg.kind = "time" THEN TodNows
                ELSE IF ReadsClock(arg) THEN NowSamples
                ELSE {[day |-> 20000, sec |-> 43200, us |-> 500000]})
    /\ op = "none"
    /\ wire = Unset
    /\ called = "none"
    /\ res = Unset
    /\ ZMQSubscriber_init(-1)

\* msg.to_bytes()
ToBytes ==
    /\ op = "none"
    /\ arg.kind = "msg"
    /\ op' = "to_bytes"
    /\ wire' = to_bytes(arg.v)
    /\ res' = to_bytes(arg.v)
    /\ UNCHANGED <<arg, now, called>>
    /\ UNCHANGED subscriber_vars

\* type(msg).from_bytes(msg.to_bytes())
FromBytes ==
    /\ op = "to_bytes"
    /\ wire.ok
    /\ op' = "from_bytes"
    /\ res' = from_bytes(arg.v.type, wire.val, now)
    /\ UNCHANGED <<arg, now, wire, called>>
    /\ UNCHANGED subscriber_vars

\* serialize(msg)
Serialize ==
    /\ op = "none"
    /\ arg.kind = "msg"
    /\ op' = "serialize"
    /\ wire' = serialize(arg.v)
    /\ res' = serialize(arg.v)
    /\ UNCHANGED <<arg, now, called>>
    /\ UNCHANGED subscriber_vars

\* serialize(data) for data of a class of the table whose to_bytes() returns
\* arg.v.msg_data
SerializeRaw ==
    /\ op = "none"
    /\ arg.kind = "payload"
    /\ op' = "serialize"
    /\ wire' = Ok(serialize_frame(opcode_of(arg.v.class_type), arg.v.msg_data))
    /\ res' = Ok(serialize_frame(opcode_of(arg.v.class_type), arg.v.msg_data))
    /\ UNCHANGED <<arg, now, called>>
    /\ UNCHANGED subscriber_vars

\* deserialize(data) of received bytes
Receive ==
    /\ op = "none"
    /\ arg.kind = "bytes"
    /\ op' = "deserialize"
    /\ wire' = Ok(arg.v)
    /\ called' = deserialize_dispatch(OPCODE_MAPPINGS, arg.v)
    /\ res' = deserialize(arg.v, now)
    /\ UNCHANGED <<arg, now>>
    /\ UNCHANGED subscriber_vars

\* deserialize(serialize(msg))
Deserialize ==
    /\ op = "serialize"
    /\ arg.kind = "msg"
    /\ wire.ok
    /\ op' = "deserialize"
    /\ called' = deserialize_dispatch(OPCODE_MAPPINGS, wire.val)
    /\ res' = deserialize(wire.val, now)
    /\ UNCHANGED <<arg, now, wire>>
    /\ UNCHANGED subscriber_vars

\* break_into_packets(message) of a byte list
BreakIntoPackets ==
    /\ op = "none"
    /\ arg.kind = "bytes"
    /\ op' = "break_into_packets"
    /\ wire' = Ok(arg.v)
    /\ res' = Ok(break_into_packets(arg.v))
    /\ UNCHANGED <<arg, now, called>>
    /\ UNCHANGED subscriber_vars

\* break_into_packets(serialize(msg))
PacketizeFrame ==
    /\ op = "serialize"
    /\ arg.kind = "msg"
    /\ wire.ok
    /\ op' = "break_into_packets"
    /\ res' = Ok(break_into_packets(wire.val))
    /\ UNCHANGED <<arg, now, wire, called>>
    /\ UNCHANGED subscriber_vars

\* time_to_bytes(t)
TimeToBytes ==
    /\ op = "none"
    /\ arg.kind = "time"
    /\ op' = "time_to_bytes"
    /\ wire' = Ok(time_to_bytes(arg.v))
    /\ res' = Ok(time_to_bytes(arg.v))
    /\ UNCHANGED <<arg, now, called>>
    /\ UNCHANGED subscriber_vars

\* bytes_to_time(time_to_bytes(t)) while the clock shows now
BytesToTime ==
    /\ op = "time_to_bytes"
    /\ op' = "bytes_to_time"
    /\ res' = bytes_to_time(wire.val, now)
    /\ UNCHANGED <<arg, now, wire, called>>
    /\ UNCHANGED subscriber_vars

Next ==
    \/ ToBytes
    \/ FromBytes
    \/ Serialize
    \/ SerializeRaw
    \/ Receive
    \/ Deserialize
    \/ BreakIntoPackets
    \/ PacketizeFrame
    \/ TimeToBytes
    \/ BytesToTime

Spec == Init /\ [][Next]_vars

(***************************************************************************)
(* The state machine of the subscriber                                     *)
(***************************************************************************)

InitZmq ==
    /\ arg = [kind |-> "none", v |-> <<>>]
    /\ now = [day |-> 20000, sec |-> 43200, us |-> 500000]
    /\ op = "none"
    /\ wire = Unset
    /\ called = "none"
    /\ res = Unset
    /\ \E timeout_ms \in TimeoutSamples : ZMQSubscriber_init(timeout_ms)

\* gen = sub.get_messages(n, override), iterated by the caller: the call
\* makes the generator object, nothing of its body has run
GetMessages ==
    /\ pc \in {"none"} \cup Ended
    /\ pc' = "created"
    /\ num_messages' \in CountSamples
    /\ timeout_override_ms' \in OverrideSamples
    /\ received_msgs' = 0
    /\ yielded' = 0
    /\ consumer' = "caller"
    /\ UNCHANGED <<default_timeout_ms, RCVTIMEO>>
    /\ UNCHANGED message_vars

\* sub.get_message(override), up to the first next() of its list(...): the
\* generator of get_messages(num_messages=1, timeout_override_ms=override),
\* which list() iterates to its end
GetMessage ==
    /\ pc \in {"none"} \cup Ended
    /\ pc' = "created"
    /\ num_messages' = 1
    /\ timeout_override_ms' \in OverrideSamples
    /\ received_msgs' = 0
    /\ yielded' = 0
    /\ consumer' = "list"
    /\ UNCHANGED <<default_timeout_ms, RCVTIMEO>>
    /\ UNCHANGED message_vars

\* the first next(gen): received_msgs = 0, set_timeout(timeout_override_ms),
\* and the generator waits in recv_pyobj()
Start ==
    /\ pc = "created"
    /\ received_msgs' = 0
    /\ RCVTIMEO' = set_timeout(timeout_override_ms, default_timeout_ms)
    /\ pc' = "recv"
    /\ UNCHANGED <<default_timeout_ms, num_messages, timeout_override_ms,
                   yielded, consumer>>
    /\ UNCHANGED message_vars

\* recv_pyobj() returns a message: yield data
RecvData ==
    /\ pc = "recv"
    /\ yielded < MaxCount + 1
    /\ yielded' = yielded + 1
    /\ pc' = "yield"
    /\ UNCHANGED <<default_timeout_ms, RCVTIMEO, num_messages,
                   timeout_override_ms, received_msgs, consumer>>
    /\ UNCHANGED message_vars

\* recv_pyobj() raises zmq.error.Again after RCVTIMEO ms (never with -1):
\* raise ZMQTimeout, and the finally clause
RecvAgain ==
    /\ pc = "recv"
    /\ RCVTIMEO # -1
    /\ RCVTIMEO' = set_timeout(None, default_timeout_ms)
    /\ pc' = "ZMQTimeout"
    /\ UNCHANGED <<default_timeout_ms, num_messages, timeout_override_ms,
                   received_msgs, yielded, consumer>>
    /\ UNCHANGED message_vars

\* recv_pyobj() raises another exception (the socket, the unpickling): it
\* goes through the finally clause
RecvError ==
    /\ pc = "recv"
    /\ RCVTIMEO' = set_timeout(None, default_timeout_ms)
    /\ pc' = "error"
    /\ UNCHANGED <<default_timeout_ms, num_messages, timeout_override_ms,
                   received_msgs, yielded, consumer>>
    /\ UNCHANGED message_vars

\* next(gen) after a yield: count the message when num_messages > 0, break
\* (and the finally clause) when that was the last, else wait in
\* recv_pyobj() again
Resume ==
    /\ pc = "yield"
    /\ received_msgs' = IF num_messages > 0 THEN received_msgs + 1 ELSE received_msgs
    /\ IF num_messages > 0 /\ received_msgs' >= num_messages
       THEN /\ RCVTIMEO' = set_timeout(None, default_timeout_ms)
            /\ pc' = "returned"
       ELSE /\ RCVTIMEO' = RCVTIMEO
            /\ pc' = "recv"
    /\ UNCHANGED <<default_timeout_ms, num_messages, timeout_override_ms,
                   yielded, consumer>>
    /\ UNCHANGED message_vars

\* gen.close() by the caller (or the collection of a generator left
\* unfinished): at a yield GeneratorExit goes through the finally clause;
\* a generator that was never started runs nothing
Close ==
    /\ consumer = "caller"
    /\ pc \in {"created", "yield"}
    /\ RCVTIMEO' = IF pc = "yield" THEN set_timeout(None, default_timeout_ms)
                   ELSE RCVTIMEO
    /\ pc' = "closed"
    /\ UNCHANGED <<default_timeout_ms, num_messages, timeout_override_ms,
                   received_msgs, yielded, consumer>>
    /\ UNCHANGED message_vars

NextZmq ==
    \/ GetMessages
    \/ GetMessage
    \/ Start
    \/ RecvData
    \/ RecvAgain
    \/ RecvError
    \/ Resume
    \/ Close

SpecZmq == InitZmq /\ [][NextZmq]_vars

(***************************************************************************)
(* Vocabulary of the claims                                                *)
(***************************************************************************)

\* a float a 32-bit float holds exactly, NaN aside (NaN equals nothing)
IsFloat32(x) == x.lo = 0 /\ ~IsNaN(x)

\* t <= current < t + 24 hours
WithinLastDay(t, current) ==
    /\ ~LaterThan(t, current)
    /\ LaterThan([t EXCEPT !.day = @ + 1], current)

\* the field values the wire layout of the variant can carry: 16-bit helio
\* ids, 32-bit floats, whole milliseconds, and for the time of day a time in
\* the 24 hours up to the decoding
Representable(m, current) ==
    CASE m.type = "HelioCmd" -> m.helio_id \in 0..65535 /\ m.action \in ActionValues
      [] m.type = "HelioTargetPoseCmd" ->
            /\ m.helio_id \in 0..65535
            /\ IsFloat32(m.x) /\ IsFloat32(m.y) /\ IsFloat32(m.z)
      [] m.type = "HeartBeat" -> m.timestamp.us % 1000 = 0
      [] m.type = "CalibObservation" ->
            /\ m.helio_id \in 0..65535
            /\ IsFloat32(m.spot_error_u) /\ IsFloat32(m.spot_error_v)
            /\ IsFloat32(m.elev_tilt_rads.elev) /\ IsFloat32(m.elev_tilt_rads.tilt)
            /\ m.timestamp.us % 1000 = 0
            /\ WithinLastDay(m.timestamp, current)
      [] m.type = "PodConfigUpdateCmd" -> TRUE

\* a == b on messages: the same class and equal fields
MsgEq(a, b) ==
    /\ a.type = b.type
    /\ CASE a.type = "HelioCmd" -> a = b
         [] a.type = "HelioTargetPoseCmd" ->
               /\ a.helio_id = b.helio_id
               /\ FloatEq(a.x, b.x) /\ FloatEq(a.y, b.y) /\ FloatEq(a.z, b.z)
         [] a.type = "HeartBeat" -> a.timestamp = b.timestamp
         [] a.type = "CalibObservation" ->
               /\ a.timestamp = b.timestamp
               /\ a.helio_id = b.helio_id
               /\ FloatEq(a.spot_error_u, b.spot_error_u)
               /\ FloatEq(a.spot_error_v, b.spot_error_v)
               /\ FloatEq(a.elev_tilt_rads.elev, b.elev_tilt_rads.elev)
               /\ FloatEq(a.elev_tilt_rads.tilt, b.elev_tilt_rads.tilt)
         [] a.type = "PodConfigUpdateCmd" -> a = b

\* the fixed wire sizes the data model gives
WireSize(class_type) ==
    CASE class_type = "HelioCmd" -> 3
      [] class_type = "HelioTargetPoseCmd" -> 14
      [] class_type = "CalibObservation" -> 22
      [] class_type = "HeartBeat" -> 8

\* the exceptions of the code that stand for the error kinds of the design:
\* EmptyPayload and UnknownOpcode are the two ValueErrors deserialize raises
\* itself; struct.error and IndexError are what running out of bytes raises
EmptyPayload == "ValueError: Empty command bytes"

UnknownOpcode == "ValueError: Unknown opcode"

TruncationErrors == {"struct.error", "IndexError"}

NamedErrors == {EmptyPayload, UnknownOpcode} \cup TruncationErrors

RegisteredOpcodes == {OPCODE_MAPPINGS[i].opcode : i \in DOMAIN OPCODE_MAPPINGS}

(***************************************************************************)
(* C1.  The frame round trip                                               *)
(***************************************************************************)

\* C1: for every message m whose class is a key of the opcode table,
\* deserialize(serialize(m)) returns a message of the same class with equal
\* field values.  Stated for the field values the wire can carry; serialize
\* returning a frame is part of it.
C1_FrameRoundTrip ==
    (arg.kind = "msg" /\ Representable(arg.v, now)) =>
        /\ (op = "serialize" => wire.ok)
        /\ (op = "deserialize" => res.ok /\ MsgEq(res.val, arg.v))

(***************************************************************************)
(* C2.  The round trip and the wire size of each variant                   *)
(***************************************************************************)

\* C2: for every variant with a binary form and every value v within its
\* declared field ranges, from_bytes(to_bytes(v)) == v and to_bytes(v) has
\* the fixed wire size of the variant (HelioCmd 3, HelioTargetPoseCmd 14,
\* CalibObservation 22, HeartBeat 8).
C2_VariantRoundTrip ==
    (/\ arg.kind = "msg"
     /\ arg.v.type # "PodConfigUpdateCmd"
     /\ Representable(arg.v, now)) =>
        /\ (op = "to_bytes" => wire.ok /\ Len(wire.val) = WireSize(arg.v.type))
        /\ (op = "from_bytes" => res.ok /\ MsgEq(res.val, arg.v))

(***************************************************************************)
(* C3.  The length byte of a frame                                         *)
(***************************************************************************)

IsTruncated(data) == Len(data) < 2 \/ Len(data) < 2 + data[2]

\* C4: deserialize rejects every input shorter than 2 bytes and every input
\* shorter than 2 plus its length byte with a truncation error: it does not
\* return a message, does not report the input as an empty payload, and
\* passes no payload slice shorter than the declared length to a from_bytes.
C4_TruncatedFrame ==
    (op = "deserialize" /\ IsTruncated(wire.val)) =>
        /\ ~res.ok
        /\ res.exc # EmptyPayload
        /\ called = "none"

(***************************************************************************)
(* C5.  Opcode dispatch                                                    *)
(***************************************************************************)

\* the table iterated in every order
TableOrders ==
    {[i \in DOMAIN OPCODE_MAPPINGS |-> OPCODE_MAPPINGS[p[i]]] :
         p \in Permutations(DOMAIN OPCODE_MAPPINGS)}

\* the frame has a complete payload that is not empty
IsComplete(data) == Len(data) >= 2 /\ data[2] > 0 /\ Len(data) >= 2 + data[2]

\* C5: for a frame with a complete, non-empty payload, an opcode byte that is
\* no value of the opcode table makes deserialize fail with the unknown-opcode
\* error without calling any from_bytes; an opcode of the table selects
\* exactly one variant, the one the table gives it, whatever the order in
\* which the table is iterated.
C5_OpcodeDispatch ==
    (op = "deserialize" /\ IsComplete(wire.val)) =>
        LET data == wire.val
            owners == {i \in DOMAIN OPCODE_MAPPINGS : OPCODE_MAPPINGS[i].opcode = data[1]}
        IN /\ (data[1] \notin RegisteredOpcodes =>
                  res = Raise(UnknownOpcode) /\ called = "none")
           /\ (data[1] \in RegisteredOpcodes =>
                  /\ Cardinality(owners) = 1
                  /\ \A i \in owners : called = OPCODE_MAPPINGS[i].class_type
                  /\ opcode_of(called) = data[1])
           /\ \A items \in TableOrders : deserialize_dispatch(items, data) = called

\* a frame with opcode 99 and a complete payload was rejected as unknown
C5_Witness ==
    /\ op = "deserialize"
    /\ IsComplete(wire.val)
    /\ wire.val[1] = 99
    /\ res = Raise(UnknownOpcode)
    /\ called = "none"

(***************************************************************************)
(* C6.  Only named errors                                                  *)
(***************************************************************************)

\* C6: for every input byte sequence deserialize returns a message or fails
\* with one of the named error kinds (TruncatedFrame, TruncatedPayload,
\* EmptyPayload, UnknownOpcode), never with another failure, and a payload
\* shorter than the fixed size of the selected variant is rejected.
C6_NamedErrors ==
    op = "deserialize" =>
        /\ (res.ok \/ res.exc \in NamedErrors)
        /\ ((called \in {"HelioCmd", "HelioTargetPoseCmd", "CalibObservation", "HeartBeat"}
                /\ Len(command_bytes_of(wire.val)) < WireSize(called)) => ~res.ok)

(***************************************************************************)
(* C7.  Packet headers                                                     *)
(***************************************************************************)

\* C7: every packet break_into_packets returns has exactly 16 entries, its
\* first entry is the address 255, its third entry is the number of packets
\* returned, and the second entries of the packets are 1, 2, ... in output
\* order.
C7_PacketHeaders ==
    op = "break_into_packets" =>
        LET packets == res.val
        IN \A k \in 1..Len(packets) :
               /\ Len(packets[k]) = 16
               /\ packets[k][1] = 255
               /\ packets[k][2] = k
               /\ packets[k][3] = Len(packets)

\* a message of several packets was split
C7_Witness ==
    /\ op = "break_into_packets"
    /\ Len(wire.val) = 130
    /\ Len(res.val) = 10
    /\ res.val[10][2] = 10

(***************************************************************************)
(* C8.  The number of packets                                              *)
(***************************************************************************)

\* ceil(n / d) by quotient and remainder
Ceil(n, d) == n \div d + (IF n % d = 0 THEN 0 ELSE 1)

\* C8 as stated: a payload of length n gives ceil(n / 13) packets and at
\* least 1 for every n: an empty payload yields one packet whose 13 data
\* bytes are all zero.
C8_AtLeastOnePacket ==
    op = "break_into_packets" =>
        /\ Len(res.val) = Max(1, Ceil(Len(wire.val), 13))
        /\ (wire.val = <<>> => res.val = <<<<255, 1, 1>> \o Repeat(0, 13)>>)

\* C8 as amended: a payload of length n gives ceil(n / 13) packets, which
\* is at least 1 for every n >= 1; an empty payload gives no packet.
C8_PacketCount ==
    op = "break_into_packets" =>
        /\ Len(res.val) = Ceil(Len(wire.val), 13)
        /\ (Len(wire.val) >= 1 => Len(res.val) >= 1)
        /\ (wire.val = <<>> => res.val = <<>>)

\* the empty payload was split, into no packet
C8_Witness ==
    /\ op = "break_into_packets"
    /\ wire.val = <<>>
    /\ res.val = <<>>

(***************************************************************************)
(* C9.  Fragmenting and reassembling                                       *)
(***************************************************************************)

\* entries 3..15 (0-based) of the packets, concatenated in order
RECURSIVE Reassemble(_)
Reassemble(packets) ==
    IF packets = <<>> THEN <<>>
    ELSE SubSeq(Head(packets), 4, Len(Head(packets))) \o Reassemble(Tail(packets))

\* C9: concatenating the data entries of the packets in sequence order and
\* keeping the first len(payload) bytes gives the payload, and every data
\* byte after that position is zero padding.
C9_FragmentReassemble ==
    op = "break_into_packets" =>
        LET payload == wire.val
            data == Reassemble(res.val)
        IN /\ \A k \in 1..Len(res.val) : res.val[k][2] = k
           /\ Len(data) >= Len(payload)
           /\ SubSeq(data, 1, Len(payload)) = payload
           /\ \A i \in (Len(payload) + 1)..Len(data) : data[i] = 0

\* a 20-byte payload with a non-zero last byte came back from two packets,
\* the second one padded
C9_Witness ==
    /\ op = "break_into_packets"
    /\ Len(wire.val) = 20
    /\ wire.val[20] # 0
    /\ Len(res.val) = 2
    /\ SubSeq(Reassemble(res.val), 1, 20) = wire.val
    /\ res.val[2][16] = 0

(***************************************************************************)
(* C10.  The frame of a HelioCmd                                           *)
(***************************************************************************)

TruncMs(t) == [t EXCEPT !.us = @ - (@ % 1000)]

\* the four bytes as the big-endian number they carry
EncodedValue(bytes_list) ==
    ((bytes_list[1] * 256 + bytes_list[2]) * 256 + bytes_list[3]) * 256 + bytes_list[4]

\* the encoded value is in 0..86,399,999 and the decoded instant is not
\* later than now
C11_Range ==
    /\ op \in {"time_to_bytes", "bytes_to_time"} =>
            /\ Len(wire.val) = NUM_BYTES_IN_TIMESTAMP
            /\ wire.val[1] <= 5
            /\ EncodedValue(wire.val) \in 0..86399999
    /\ op = "bytes_to_time" => res.ok /\ ~LaterThan(res.val, now)

\* C11 as stated: for t <= now < t + 24 hours, decoding the time of day of
\* t at now gives t truncated to whole milliseconds; the decoded instant is
\* never later than now and the encoded value is in 0..86,399,999.
C11_TimeOfDayRoundTrip ==
    /\ C11_Range
    /\ (op = "bytes_to_time" /\ WithinLastDay(arg.v, now)) =>
            res.val = TruncMs(arg.v)

\* C11 as amended: for t <= now < trunc(t) + 24 hours, trunc(t) being t
\* truncated to whole milliseconds, decoding the time of day of t at now
\* gives trunc(t); the decoded instant is never later than now and the
\* encoded value is in 0..86,399,999.
C11_TimeOfDayWithinDay ==
    /\ C11_Range
    /\ (op = "bytes_to_time" /\ ~LaterThan(arg.v, now)
           /\ WithinLastDay(TruncMs(arg.v), now)) =>
            res.val = TruncMs(arg.v)

\* a timestamp of the day before, with a part of a millisecond, decoded
\* less than 24 hours after its whole milliseconds: the day was taken off
C11_Witness ==
    /\ op = "bytes_to_time"
    /\ arg.v.day = now.day - 1
    /\ arg.v.us % 1000 # 0
    /\ ~LaterThan(arg.v, now)
    /\ WithinLastDay(TruncMs(arg.v), now)
    /\ res.val = TruncMs(arg.v)
    /\ res.val.day = now.day - 1

(***************************************************************************)
(* C12.  get_messages: the count and the receive timeout                   *)
(***************************************************************************)

\* C12: for a call of get_messages with n > 0 and any override (0 and None
\* included) the generator yields at most n messages, ends after the n-th
\* without another receive, ends by ZMQTimeout only before the n-th; once
\* it has ended or was closed the receive timeout of the socket is the
\* default of the subscriber; while it is receiving, the receive timeout
\* is the override when one was given.
C12_GetMessages ==
    (pc # "none" /\ num_messages > 0) =>
        /\ yielded <= num_messages
        /\ (pc = "returned" => yielded = num_messages)
        /\ (yielded = num_messages => pc # "recv")
        /\ (pc = "ZMQTimeout" => yielded < num_messages)
        /\ (pc \in Ended => RCVTIMEO = default_timeout_ms)
        /\ ((pc = "recv" /\ timeout_override_ms # None) =>
                RCVTIMEO = timeout_override_ms[1])

====
